---------------------------- MODULE Spec2Model ----------------------------
(***************************************************************************)
(* The document ingestion and compression pipeline of the Unit Optimizer   *)
(* server:                                                                 *)
(*   server/fileProcessing.ts  chunkText, compressText, extractTextFromFile *)
(*   server/routes.ts          processExcelFile (the upload route's own    *)
(*                             Excel extraction), POST /api/upload         *)
(* Strings are sequences of one-character strings, so that the regular     *)
(* expressions, split, join and includes of the source are computed on     *)
(* characters.  Extracted text, which can be megabytes long, is a sequence *)
(* of pieces: slices [from, to) of the extractor's output and literals.    *)
(***************************************************************************)
EXTENDS Integers, Sequences, FiniteSets, TLC

\* ------------------------------------------------------------------ bounds
\* number of extraction calls that may be in flight together
MaxCalls == 2
\* Date.now() takes the values 0..MaxClock
MaxClock == 1
\* an input text of the compressor is made of at most MaxTokens tokens
MaxTokens == 4
\* length of a short extractor output
SmallText == 10
\* a worksheet may have this many rows more than the large-file row cap
ExtraRows == 1
\* an upload request holds at most MaxFiles files
MaxFiles == 6
\* the paragraphs holding a keyword an input text has at most
MaxKeyed == 5
\* the lessons an analysis is given at most
MaxLessons == 6

\* ------------------------------------------------------- program constants
MiB == 1024 * 1024
\* chunkText's default chunkSize
DefaultChunkSize == 1024 * 1024
\* the ceiling above which extractTextFromFile truncates
TextCeiling == 5 * 1024 * 1024
\* fileSizeMB thresholds of the .pdf and .xlsx cases
PdfLargeMB == 30
ExcelLargeMB == 20
\* compressText: paragraphs shorter than this are skipped
MinParagraphLength == 10
\* compressText: paragraphs longer than this are key paragraphs
LongParagraphLength == 100
\* compressText: fewer key paragraphs than this and all paragraphs are kept
MinKeyParagraphs == 5
\* "\n...[Content truncated due to size]...\n".length
MarkerLength == 39
\* sheetRows of the large-file Excel path and of the second Excel attempt
LargeSheetRows == 2000
FallbackSheetRows == 1000
\* const batchSize = 5 of the upload route
\* execOptions: timeout (milliseconds) and maxBuffer (MiB)
ExecTimeoutMs == 300000
ExecMaxBufferMiB == 100
\* withExponentialBackoff(fn, 3, 2000)
MaxRetries == 3
InitialDelay == 2000
\* the status of a rate-limit error
RateLimited == 429
MAX_LESSONS_PER_CHUNK == 3
BatchSize == 5

\* -------------------------------------------------------------- characters
UpperChars == << "A", "B", "C", "D", "E", "F", "G", "H", "I", "J", "K", "L", "M",
                 "N", "O", "P", "Q", "R", "S", "T", "U", "V", "W", "X", "Y", "Z" >>
LowerChars == << "a", "b", "c", "d", "e", "f", "g", "h", "i", "j", "k", "l", "m",
                 "n", "o", "p", "q", "r", "s", "t", "u", "v", "w", "x", "y", "z" >>

\* String.prototype.toLowerCase, one character
toLowerChar(c) ==
  IF \E k \in 1..Len(UpperChars) : UpperChars[k] = c
  THEN LowerChars[CHOOSE k \in 1..Len(UpperChars) : UpperChars[k] = c]
  ELSE c

\* String.prototype.toLowerCase
toLowerCase(s) == [k \in 1..Len(s) |-> toLowerChar(s[k])]

\* the characters the regular expression class \s matches
IsWhitespace(c) == c \in {" ", "\n", "\r", "\t"}

\* ---------------------------------------------------------- format detector
\* path.extname: from the last "." of the name to its end; "" when the name
\* has no "." or only a leading one
extname(fileName) ==
  LET dots == {k \in 1..Len(fileName) : fileName[k] = "."}
  IN IF dots = {} THEN << >>
     ELSE LET last == CHOOSE k \in dots : \A j \in dots : j <= k
          IN IF last = 1 THEN << >> ELSE SubSeq(fileName, last, Len(fileName))

\* const fileExtension = path.extname(fileName).toLowerCase()
fileExtension(fileName) == toLowerCase(extname(fileName))

\* the case labels of the switch over fileExtension
Format(ext) ==
  CASE ext = << ".", "t", "x", "t" >> -> "txt"
    [] ext = << ".", "p", "d", "f" >> -> "pdf"
    [] ext \in { << ".", "d", "o", "c", "x" >>, << ".", "d", "o", "c" >> } -> "word"
    [] ext \in { << ".", "x", "l", "s", "x" >>, << ".", "x", "l", "s" >> } -> "excel"
    [] ext \in { << ".", "p", "p", "t", "x" >>, << ".", "p", "p", "t" >> } -> "ppt"
    [] OTHER -> "unsupported"

\* a mutation of LargerThanMB: the threshold itself counts as large
AtLeastMB(size, mb) == size >= mb * MiB

\* fileSizeMB > threshold, fileSizeMB = fileBuffer.length / (1024 * 1024)
LargerThanMB(size, mb) == size > mb * MiB

\* a mutation of Chain: the .pptx case without its catch
ChainNoScan(format, size) ==
  CASE format = "txt" -> << "readFile" >>
    [] format = "pdf" ->
         IF LargerThanMB(size, PdfLargeMB)
         THEN << "strings20000", "strings10000" >>
         ELSE << "pdfParse", "strings10000" >>
    [] format = "word" -> << "mammoth", "strings10000" >>
    [] format = "excel" ->
         IF LargerThanMB(size, ExcelLargeMB)
         THEN << "xlsxRows2000", "xlsxRows1000", "strings5000" >>
         ELSE << "excelProcessor", "xlsxRows1000", "strings5000" >>
    [] format = "ppt" -> << "textract" >>
    [] OTHER -> << >>

\* the extraction methods of a format in the order the code attempts them
Chain(format, size) ==
  CASE format = "txt" -> << "readFile" >>
    [] format = "pdf" ->
         IF LargerThanMB(size, PdfLargeMB)
         THEN << "strings20000", "strings10000" >>
         ELSE << "pdfParse", "strings10000" >>
    [] format = "word" -> << "mammoth", "strings10000" >>
    [] format = "excel" ->
         IF LargerThanMB(size, ExcelLargeMB)
         THEN << "xlsxRows2000", "xlsxRows1000", "strings5000" >>
         ELSE << "excelProcessor", "xlsxRows1000", "strings5000" >>
    [] format = "ppt" -> << "textract", "strings10000" >>
    [] OTHER -> << >>

\* the methods the code awaits (fs.promises, execAsync); XLSX.readFile and
\* excelProcessor.processExcelFile run synchronously
IsAsync(method) ==
  method \in {"readFile", "strings20000", "pdfParse", "strings10000",
              "mammoth", "strings5000", "textract"}

\* the methods that run a child process (execAsync)
IsExternal(method) == IsAsync(method) /\ method # "readFile"

\* const execOptions = { timeout: 300000, maxBuffer: 100 * 1024 * 1024 }
execOptions == [timeout |-> ExecTimeoutMs, maxBuffer |-> ExecMaxBufferMiB * MiB]

\* a mutation of ExecOptionsOf: the fallback scan run without options
\* (child_process.exec then sets no timeout, and a maxBuffer of 1 MiB)
ExecOptionsOfBareFallback(method) ==
  IF method = "strings10000" THEN [timeout |-> 0, maxBuffer |-> MiB] ELSE execOptions

\* the options the method's execAsync call is given
ExecOptionsOf(method) == execOptions

\* the program each method runs: the `strings` scans differ in their head -n
\* only, the XLSX.readFile calls of fileProcessing.ts in their sheetRows only
Extractor(method) ==
  CASE method \in {"strings20000", "strings10000", "strings5000"} -> "strings"
    [] method \in {"xlsxRows2000", "xlsxRows1000"} -> "XLSX.readFile(sheetRows)"
    [] OTHER -> method

\* the sheetRows option of the method's XLSX.readFile (0, the library's
\* default: every row)
SheetRows(method) ==
  CASE method = "xlsxRows2000" -> LargeSheetRows
    [] method = "xlsxRows1000" -> FallbackSheetRows
    [] OTHER -> 0

\* a mutation of RowsRead: the sheetRows option is not passed on
RowsReadUncapped(method, rows) == rows

\* XLSX.readFile(path, { sheetRows }): the rows of the first worksheet it reads
RowsRead(method, rows) ==
  IF SheetRows(method) > 0 /\ rows > SheetRows(method) THEN SheetRows(method) ELSE rows

\* the numbers of rows the first worksheet of a workbook may have
SheetRowCounts == {1, LargeSheetRows, LargeSheetRows + ExtraRows}

\* message of the error a failing operation raises
ErrOf(op) == << "error of ", op >>

\* ------------------------------------------------------------------- text
NoText == << >>
\* the output of an extractor, n characters long
RawText(n) == IF n = 0 THEN NoText ELSE << [kind |-> "raw", from |-> 0, to |-> n] >>
Marker == [kind |-> "marker", from |-> 0, to |-> MarkerLength]
\* a string built from a message
MessageText(msg) == << [kind |-> "message", from |-> 0, to |-> Len(msg), msg |-> msg] >>

RECURSIVE TextLength(_)
\* String.prototype.length
TextLength(t) ==
  IF t = << >> THEN 0 ELSE (Head(t).to - Head(t).from) + TextLength(Tail(t))

\* String.prototype.substring(a, b) of an extractor's output
Substring(t, a, b) ==
  LET lo == IF a < 0 THEN 0 ELSE IF a > TextLength(t) THEN TextLength(t) ELSE a
      hi == IF b < 0 THEN 0 ELSE IF b > TextLength(t) THEN TextLength(t) ELSE b
  IN IF t = << >> \/ lo >= hi THEN NoText
     ELSE << [kind |-> "raw", from |-> t[1].from + lo, to |-> t[1].from + hi] >>

\* a mutation of chunkText: the tail taken from the middle of the text on
chunkTextFromMiddle(text, chunkSize) ==
  IF TextLength(text) <= chunkSize THEN text
  ELSE LET beginChunk == Substring(text, 0, chunkSize \div 2)
           endChunk == Substring(text, TextLength(text) \div 2, TextLength(text))
       IN beginChunk \o << Marker >> \o endChunk

\* chunkText(text, chunkSize)
chunkText(text, chunkSize) ==
  IF TextLength(text) <= chunkSize THEN text
  ELSE LET beginChunk == Substring(text, 0, chunkSize \div 2)
           endChunk == Substring(text, TextLength(text) - chunkSize \div 2, TextLength(text))
       IN beginChunk \o << Marker >> \o endChunk

\* a mutation of Truncate: the ceiling passed as the chunk size
TruncateToCeiling(text) ==
  IF TextLength(text) > TextCeiling THEN chunkText(text, TextCeiling) ELSE text

\* if (extractedText.length > 5 * 1024 * 1024) extractedText = chunkText(extractedText)
Truncate(text) ==
  IF TextLength(text) > TextCeiling THEN chunkText(text, DefaultChunkSize) ELSE text

\* ------------------------------------------------------------ compressText
RECURSIVE ReplaceCRLFTypo(_)
\* a mutation of ReplaceCRLF: the replacement 'n' for '\n'
ReplaceCRLFTypo(s) ==
  IF s = << >> THEN << >>
  ELSE IF Len(s) >= 2 /\ s[1] = "\r" /\ s[2] = "\n"
       THEN << "n" >> \o ReplaceCRLFTypo(SubSeq(s, 3, Len(s)))
       ELSE << Head(s) >> \o ReplaceCRLFTypo(Tail(s))

RECURSIVE ReplaceCRLF(_)
\* text.replace(/\r\n/g, '\n')
ReplaceCRLF(s) ==
  IF s = << >> THEN << >>
  ELSE IF Len(s) >= 2 /\ s[1] = "\r" /\ s[2] = "\n"
       THEN << "\n" >> \o ReplaceCRLF(SubSeq(s, 3, Len(s)))
       ELSE << Head(s) >> \o ReplaceCRLF(Tail(s))

RECURSIVE SkipWhitespace(_)
\* what follows the longest run of whitespace s begins with (the greedy \s+)
SkipWhitespace(s) ==
  IF s # << >> /\ IsWhitespace(Head(s)) THEN SkipWhitespace(Tail(s)) ELSE s

RECURSIVE CollapsePairs(_)
\* a mutation of CollapseWhitespace: the pattern \s\s for \s+
CollapsePairs(s) ==
  IF s = << >> THEN << >>
  ELSE IF Len(s) >= 2 /\ IsWhitespace(s[1]) /\ IsWhitespace(s[2])
       THEN << " " >> \o CollapsePairs(SubSeq(s, 3, Len(s)))
       ELSE << Head(s) >> \o CollapsePairs(Tail(s))

RECURSIVE CollapseWhitespace(_)
\* .replace(/\s+/g, ' '): newlines are whitespace too
CollapseWhitespace(s) ==
  IF s = << >> THEN << >>
  ELSE IF IsWhitespace(Head(s))
       THEN << " " >> \o CollapseWhitespace(SkipWhitespace(s))
       ELSE << Head(s) >> \o CollapseWhitespace(Tail(s))

RECURSIVE TrimAfterNewline(_)
\* .replace(/\n\s+/g, '\n')
TrimAfterNewline(s) ==
  IF s = << >> THEN << >>
  ELSE IF Len(s) >= 2 /\ s[1] = "\n" /\ IsWhitespace(s[2])
       THEN << "\n" >> \o TrimAfterNewline(SkipWhitespace(Tail(s)))
       ELSE << Head(s) >> \o TrimAfterNewline(Tail(s))

RECURSIVE SkipNewlines(_)
SkipNewlines(s) ==
  IF s # << >> /\ Head(s) = "\n" THEN SkipNewlines(Tail(s)) ELSE s

RECURSIVE LimitBlankLines(_)
\* .replace(/\n{3,}/g, '\n\n')
LimitBlankLines(s) ==
  IF s = << >> THEN << >>
  ELSE IF Len(s) >= 3 /\ s[1] = "\n" /\ s[2] = "\n" /\ s[3] = "\n"
       THEN << "\n", "\n" >> \o LimitBlankLines(SkipNewlines(s))
       ELSE << Head(s) >> \o LimitBlankLines(Tail(s))

\* Step 1: let compressed = text.replace(..).replace(..).replace(..).replace(..)
Normalize(text) ==
  LimitBlankLines(TrimAfterNewline(CollapseWhitespace(ReplaceCRLF(text))))

RECURSIVE SplitFrom(_, _)
SplitFrom(s, current) ==
  IF s = << >> THEN << current >>
  ELSE IF Len(s) >= 2 /\ s[1] = "\n" /\ s[2] = "\n"
       THEN << current >> \o SplitFrom(SubSeq(s, 3, Len(s)), << >>)
       ELSE SplitFrom(Tail(s), Append(current, Head(s)))

\* String.prototype.split('\n\n')
Split(s) == SplitFrom(s, << >>)

\* const paragraphs = compressed.split('\n\n')
Paragraphs(text) == Split(Normalize(text))

RECURSIVE FilterLoop(_, _, _)
\* the for loop over paragraphs: uniqueParagraphs, filteredParagraphs
FilterLoop(paragraphs, uniqueParagraphs, filteredParagraphs) ==
  IF paragraphs = << >> THEN filteredParagraphs
  ELSE LET paragraph == Head(paragraphs)
       IN IF Len(paragraph) < MinParagraphLength
          THEN FilterLoop(Tail(paragraphs), uniqueParagraphs, filteredParagraphs)
          ELSE IF paragraph \in uniqueParagraphs
          THEN FilterLoop(Tail(paragraphs), uniqueParagraphs, filteredParagraphs)
          ELSE FilterLoop(Tail(paragraphs), uniqueParagraphs \cup {paragraph},
                          Append(filteredParagraphs, paragraph))

\* Step 2: the filteredParagraphs the loop ends with
FilteredParagraphs(text) == FilterLoop(Paragraphs(text), {}, << >>)

\* String.prototype.includes
Includes(s, word) ==
  \E k \in 0..(Len(s) - Len(word)) : SubSeq(s, k + 1, k + Len(word)) = word

Keywords ==
  { << "s", "t", "a", "n", "d", "a", "r", "d" >>,
    << "o", "b", "j", "e", "c", "t", "i", "v", "e" >>,
    << "l", "e", "a", "r", "n" >>,
    << "s", "t", "u", "d", "e", "n", "t" >>,
    << "a", "s", "s", "e", "s", "s", "m", "e", "n", "t" >>,
    << "s", "k", "i", "l", "l" >>,
    << "c", "o", "n", "c", "e", "p", "t" >>,
    << "u", "n", "d", "e", "r", "s", "t", "a", "n", "d" >>,
    << "a", "n", "a", "l", "y", "z", "e" >>,
    << "e", "v", "a", "l", "u", "a", "t", "e" >> }

\* the predicate of filteredParagraphs.filter
IsKeyParagraph(p) ==
  \/ \E word \in Keywords : Includes(toLowerCase(p), word)
  \/ Len(p) > LongParagraphLength

\* Step 3: keyParagraphs
KeyParagraphs(text) == SelectSeq(FilteredParagraphs(text), IsKeyParagraph)

\* keyParagraphs.length < 5 ? filteredParagraphs : keyParagraphs
FinalParagraphs(text) ==
  IF Len(KeyParagraphs(text)) < MinKeyParagraphs
  THEN FilteredParagraphs(text) ELSE KeyParagraphs(text)

RECURSIVE JoinTrailing(_)
\* a mutation of Join: the separator after every paragraph
JoinTrailing(ps) ==
  IF ps = << >> THEN << >> ELSE Head(ps) \o << "\n", "\n" >> \o JoinTrailing(Tail(ps))

RECURSIVE Join(_)
\* Array.prototype.join('\n\n')
Join(ps) ==
  IF ps = << >> THEN << >>
  ELSE IF Len(ps) = 1 THEN Head(ps)
  ELSE Head(ps) \o << "\n", "\n" >> \o Join(Tail(ps))

\* compressText(text)
compressText(text) == Join(FinalParagraphs(text))

\* the pieces the input texts are made of
Tokens ==
  { << "L", "e", "s", "s", "o", "n", "-", "o", "n", "e" >>,
    << "R", "e", "v", "i", "e", "w", "-", "t", "w", "o" >>,
    << "S", "t", "u", "d", "e", "n", "t", "s" >>,
    << " " >>, << "\n" >>, << "\r", "\n" >> }

RECURSIVE Flatten(_)
Flatten(ts) == IF ts = << >> THEN << >> ELSE Head(ts) \o Flatten(Tail(ts))

\* the input texts: every concatenation of at most MaxTokens tokens
InputTexts == UNION { { Flatten(ts) : ts \in [1..n -> Tokens] } : n \in 0..MaxTokens }

\* the digits that tell the paragraphs and the file names of an input apart
Digits == << "1", "2", "3", "4", "5", "6", "7", "8", "9" >>

\* a paragraph of 10 characters holding the keyword 'skill'
Keyed(d) == << "s", "k", "i", "l", "l", "-", "n", "o", "-", Digits[d] >>
\* a paragraph of 10 characters holding no keyword
Plain == << "R", "e", "v", "i", "e", "w", "-", "t", "w", "o" >>
\* the input texts made of paragraphs: up to MaxKeyed distinct paragraphs
\* with a keyword, then possibly a paragraph without a keyword or a repeated
\* paragraph, a blank line between two paragraphs
ParagraphTexts ==
  { Join([d \in 1..n |-> Keyed(d)] \o after) :
      n \in 0..MaxKeyed,
      after \in { << >>, << Plain >>, << Keyed(1) >>, << Plain, Keyed(1) >> } }

\* --------------------------------------------------------------- documents
Name_txt == << "n", ".", "t", "x", "t" >>
Name_PDF == << "a", ".", "P", "D", "F" >>
Name_docx == << "w", ".", "d", "o", "c", "x" >>
Name_xlsx == << "s", ".", "x", "l", "s", "x" >>
Name_ppt == << "p", ".", "p", "p", "t" >>
Name_exe == << "v", ".", "e", "x", "e" >>
Name_noext == << "R", "E", "A", "D", "M", "E" >>
\* the name processExcelFile of routes.ts gives every artifact
Name_tempExcel == << "t", "e", "m", "p", "-", "e", "x", "c", "e", "l", ".", "x", "l", "s", "x" >>

SmallFile == 1024
NoDoc == [name |-> << >>, size |-> 0]
IsExcel(d) == Format(fileExtension(d.name)) = "excel"
\* the uploads of the route: processBatch hands the Excel ones to
\* processExcelFile and the others to extractTextFromFile
RouteDocs ==
  { [name |-> Name_txt, size |-> SmallFile],
    [name |-> Name_PDF, size |-> SmallFile],
    [name |-> Name_xlsx, size |-> SmallFile],
    [name |-> Name_exe, size |-> SmallFile] }
\* the documents extractTextFromFile is called on directly: every format,
\* below, at and above the size thresholds
DirectDocs ==
  { [name |-> n, size |-> SmallFile] :
       n \in {Name_txt, Name_PDF, Name_docx, Name_xlsx, Name_ppt, Name_exe, Name_noext} }
  \cup { [name |-> Name_PDF, size |-> PdfLargeMB * MiB + 1],
         [name |-> Name_xlsx, size |-> ExcelLargeMB * MiB + 1] }
  \cup { [name |-> Name_PDF, size |-> PdfLargeMB * MiB],
         [name |-> Name_xlsx, size |-> ExcelLargeMB * MiB],
         [name |-> Name_xlsx, size |-> PdfLargeMB * MiB] }
  \cup { [name |-> n, size |-> PdfLargeMB * MiB + 1] : n \in {Name_txt, Name_docx, Name_ppt} }

\* the lengths an extractor's output may have: in the route's batches, and
\* in the direct calls (with the empty output and the ceiling itself)
RouteLens == {SmallText, TextCeiling + 1}
DirectLens == {0, SmallText, TextCeiling, TextCeiling + 1, 6 * MiB}

\* ------------------------------------------------------------------ state
VARIABLES
  clock,   \* Date.now()
  tmp,     \* os.tmpdir(): the set of [path, owner] of the files in it
  call,    \* call[i]: the i-th extraction call
  cpc,     \* compressor runs: "input", "once", "twice" ("off" when unused)
  cin,     \* the text given to compressText
  cout,    \* compressText(cin)
  cout2,   \* compressText(cout)
  upc,     \* POST /api/upload: "idle", "batches", "done"
  files,   \* req.files
  items,   \* items[k]: the promise processBatch makes for files[k]
  batchStart,     \* the loop variable i of the batch loop, plus one
  stored,         \* the records storage.createFile has inserted
  uploadedFiles,  \* the array the response is built from
  res,     \* the response sent
  apc,     \* analyzeLessonsInChunks: "idle", "call", "sleep", "done"
  lessons, \* lessons.length
  chunk,   \* the loop variable i of the chunk loop
  retries, \* withExponentialBackoff: retries
  attempts,  \* the outcomes of the calls of fn the running helper has made
  delay,     \* the delay of the pending setTimeout
  coveredStandards,
  standardsCoverage,
  seen,      \* the standards of the reports merged so far
  outcomes,  \* outcomes[k]: whether the k-th chunk was merged or failed
  last       \* how the helper ended last: its calls, and what it returned or threw

vars == << clock, tmp, call, cpc, cin, cout, cout2,
           upc, files, items, batchStart, stored, uploadedFiles, res,
           apc, lessons, chunk, retries, attempts, delay,
           coveredStandards, standardsCoverage, seen, outcomes, last >>
compressVars == << cpc, cin, cout, cout2 >>
extractVars == << clock, tmp, call >>
uploadVars == << upc, files, items, batchStart, stored, uploadedFiles, res >>
analyzeVars == << apc, lessons, chunk, retries, attempts, delay,
                  coveredStandards, standardsCoverage, seen, outcomes, last >>

Calls == 1..MaxCalls
NoError == << >>

IdleCall ==
  [pc |-> "idle", kind |-> "none", doc |-> NoDoc, ext |-> << >>, path |-> << >>,
   written |-> FALSE, step |-> 0, tried |-> << >>, errs |-> << >>, thrown |-> << >>,
   unlinks |-> 0, unlinkFailed |-> FALSE, raw |-> 0 - 1, text |-> NoText,
   error |-> NoError, sheet |-> 0 - 1, rows |-> 0 - 1,
   hung |-> FALSE, limits |-> << >>]

InFlight(c) == c.pc \notin {"idle", "returned"}
Exists(path) == \E e \in tmp : e.path = path

\* path.join(tempDir, `${Date.now()}-${fileName}`)
tempFilePath(now, fileName) == << now, fileName >>

\* a mutation of OuterCatch: the error is thrown on to the caller
OuterCatchRethrows(c, msg) ==
  [c EXCEPT !.pc = "rejected", !.path = << >>, !.thrown = msg]

\* return { text: '', error: `Failed to extract text: ${error.message}` } (outer catch)
OuterCatch(c, msg) ==
  [c EXCEPT !.pc = "returned", !.path = << >>, !.text = NoText,
            !.error = << "Failed to extract text: " >> \o msg]

\* a mutation of ProcessingError: the message of the error caught last
ProcessingErrorLast(format, errs) ==
  CASE format = "pdf" -> << "PDF processing error: " >> \o errs[Len(errs)]
    [] format = "excel" -> << "Excel processing error: " >> \o errs[Len(errs)]
    [] OTHER -> errs[Len(errs)]

\* the error the switch throws once every method of the format has failed
ProcessingError(format, errs) ==
  CASE format = "pdf" -> << "PDF processing error: " >> \o errs[1]
    [] format = "excel" -> << "Excel processing error: " >> \o errs[1]
    [] OTHER -> errs[Len(errs)]

\* a mutation of Thrown: the error is passed on without the cleanup
ThrownNoCleanup(c) ==
  OuterCatch(c, ProcessingError(Format(c.ext), c.errs))

\* catch (processingError): the unlink of the temp file is awaited, then the
\* error is thrown again
Thrown(c) ==
  [c EXCEPT !.pc = "unlinkErr", !.thrown = ProcessingError(Format(c.ext), c.errs)]

\* the method produced extractedText of length n: truncation, then the unlink
\* of the success path is awaited
Extracted(c, n) ==
  [c EXCEPT !.pc = "unlinkOk", !.raw = n, !.text = Truncate(RawText(n))]

RECURSIVE Attempt(_, _, _)
\* the code from the k-th method of the chain on, up to its next await: the
\* set of states it can leave the call in (lens: the lengths a method's
\* output may have)
Attempt(c, k, lens) ==
  LET chain == Chain(Format(c.ext), c.doc.size)
  IN IF k > Len(chain) THEN { Thrown(c) }
     ELSE LET m == chain[k]
              c1 == [c EXCEPT !.step = k, !.tried = Append(@, m)]
          IN IF IsAsync(m) THEN { [c1 EXCEPT !.pc = "await"] }
             ELSE { [Extracted(c1, n) EXCEPT !.sheet = r, !.rows = RowsRead(m, r)] :
                      n \in lens, r \in SheetRowCounts }
                  \cup Attempt([c1 EXCEPT !.errs = Append(@, ErrOf(m))], k + 1, lens)

\* a mutation of Unsupported: the message is returned as the text as well
UnsupportedAsText(c) ==
  [c EXCEPT !.pc = "returned", !.path = << >>,
            !.text = MessageText(<< "Unsupported file type: " >> \o c.ext),
            !.error = << "Unsupported file type: " >> \o c.ext]

\* default: return { text: '', error: `Unsupported file type: ${fileExtension}` }
Unsupported(c) ==
  [c EXCEPT !.pc = "returned", !.path = << >>, !.text = NoText,
            !.error = << "Unsupported file type: " >> \o c.ext]

\* ---------------------------------------------------- extractTextFromFile
\* the call, up to await fs.promises.writeFile(tempFilePath, fileBuffer)
Call(i, d) ==
  /\ call[i].pc = "idle"
  /\ IF i = 1 THEN TRUE ELSE call[i - 1].pc # "idle"
  /\ call' = [call EXCEPT ![i] =
        [IdleCall EXCEPT !.pc = "write", !.kind = "extract", !.doc = d,
                         !.ext = fileExtension(d.name),
                         !.path = tempFilePath(clock, d.name)]]
  /\ UNCHANGED << clock, tmp, compressVars, uploadVars, analyzeVars >>

\* writeFile rejects: the outer catch returns the failure
WriteFail(i) ==
  /\ call[i].pc = "write"
  /\ call[i].kind = "extract"
  /\ call' = [call EXCEPT ![i] = OuterCatch(@, ErrOf("writeFile"))]
  /\ UNCHANGED << clock, tmp, compressVars, uploadVars, analyzeVars >>

\* writeFile resolves: the artifact exists, and the switch runs to its first
\* await or to the return of the default case
WriteOk(i, lens) ==
  /\ call[i].pc = "write"
  /\ call[i].kind = "extract"
  /\ tmp' = {e \in tmp : e.path # call[i].path} \cup {[path |-> call[i].path, owner |-> i]}
  /\ LET c == [call[i] EXCEPT !.written = TRUE]
     IN IF Format(c.ext) = "unsupported"
        THEN call' = [call EXCEPT ![i] = Unsupported(c)]
        ELSE \E c2 \in Attempt(c, 1, lens) : call' = [call EXCEPT ![i] = c2]
  /\ UNCHANGED << clock, compressVars, uploadVars, analyzeVars >>

\* the awaited method resolves with n characters of text (a child process:
\* it has exited with status 0, having written no more than maxBuffer)
MethodOk(i, n) ==
  /\ call[i].pc = "await"
  /\ call[i].kind = "extract"
  /\ ~call[i].hung
  /\ call[i].tried[call[i].step] = "readFile" => Exists(call[i].path)
  /\ IsExternal(call[i].tried[call[i].step])
       => n <= ExecOptionsOf(call[i].tried[call[i].step]).maxBuffer
  /\ call' = [call EXCEPT ![i] = Extracted(@, n)]
  /\ UNCHANGED << clock, tmp, compressVars, uploadVars, analyzeVars >>

\* the awaited method rejects (a child process: it has exited with a status
\* other than 0): the next method of the chain, or the throw
MethodFail(i, lens) ==
  /\ call[i].pc = "await"
  /\ call[i].kind = "extract"
  /\ ~call[i].hung
  /\ LET c == [call[i] EXCEPT !.errs = Append(@, ErrOf(call[i].tried[call[i].step]))]
     IN \E c2 \in Attempt(c, call[i].step + 1, lens) : call' = [call EXCEPT ![i] = c2]
  /\ UNCHANGED << clock, tmp, compressVars, uploadVars, analyzeVars >>

\* the child process of the awaited method stops making progress: it will
\* neither exit nor write
Hang(i) ==
  /\ call[i].pc = "await"
  /\ call[i].kind = "extract"
  /\ IsExternal(call[i].tried[call[i].step])
  /\ ~call[i].hung
  /\ call' = [call EXCEPT ![i] = [@ EXCEPT !.hung = TRUE]]
  /\ UNCHANGED << clock, tmp, compressVars, uploadVars, analyzeVars >>

\* the limits of child_process.exec
ExecLimits == {"timeout", "maxBuffer"}

\* exec kills the child process and rejects: the timeout has run out (when
\* the options set one), or the child has written more than maxBuffer.  The
\* rejection is caught where the method's other errors are.
LimitExceeded(i, lens, limit) ==
  /\ call[i].pc = "await"
  /\ call[i].kind = "extract"
  /\ IsExternal(call[i].tried[call[i].step])
  /\ IF limit = "timeout"
     THEN ExecOptionsOf(call[i].tried[call[i].step]).timeout > 0
     ELSE ~call[i].hung
  /\ LET c == [call[i] EXCEPT
                 !.hung = FALSE,
                 !.limits = Append(@, [step |-> call[i].step, limit |-> limit]),
                 !.errs = Append(@, ErrOf(call[i].tried[call[i].step]))]
     IN \E c2 \in Attempt(c, call[i].step + 1, lens) : call' = [call EXCEPT ![i] = c2]
  /\ UNCHANGED << clock, tmp, compressVars, uploadVars, analyzeVars >>

\* a mutation of AfterUnlink: the error of a failed method is kept and
\* reported although a later method produced text
AfterUnlinkKeepsError(c) ==
  IF c.pc = "unlinkOk"
  THEN IF c.errs = << >>
       THEN [c EXCEPT !.pc = "returned", !.path = << >>, !.error = NoError]
       ELSE OuterCatch(c, c.errs[1])
  ELSE OuterCatch(c, c.thrown)

\* the value returned once the unlink has settled: the text on the success
\* path, the outer catch's failure on the error path
AfterUnlink(c) ==
  IF c.pc = "unlinkOk" THEN [c EXCEPT !.pc = "returned", !.path = << >>, !.error = NoError]
  ELSE OuterCatch(c, c.thrown)

\* await fs.promises.unlink(tempFilePath) resolves: the file is gone
UnlinkOk(i) ==
  /\ call[i].pc \in {"unlinkOk", "unlinkErr"}
  /\ call[i].kind = "extract"
  /\ Exists(call[i].path)
  /\ tmp' = {e \in tmp : e.path # call[i].path}
  /\ call' = [call EXCEPT ![i] = AfterUnlink([@ EXCEPT !.unlinks = @ + 1])]
  /\ UNCHANGED << clock, compressVars, uploadVars, analyzeVars >>

\* the unlink rejects (ENOENT when the file is gone, EPERM, EBUSY, ...): the
\* catch logs a warning
UnlinkFail(i) ==
  /\ call[i].pc \in {"unlinkOk", "unlinkErr"}
  /\ call[i].kind = "extract"
  /\ call' = [call EXCEPT ![i] =
        AfterUnlink([@ EXCEPT !.unlinks = @ + 1, !.unlinkFailed = TRUE])]
  /\ UNCHANGED << clock, tmp, compressVars, uploadVars, analyzeVars >>

\* ------------------------------------------- processExcelFile of routes.ts
\* return 'Failed to process Excel file: ' + error.message (the catch)
ExcelCatch(c, msg) ==
  [c EXCEPT !.pc = "returned", !.path = << >>, !.error = NoError,
            !.text = MessageText(<< "Failed to process Excel file: " >> \o msg)]

\* the route's call for an .xlsx or .xls upload, up to await writeFile
ExcelCall(i, d) ==
  /\ call[i].pc = "idle"
  /\ IF i = 1 THEN TRUE ELSE call[i - 1].pc # "idle"
  /\ call' = [call EXCEPT ![i] =
        [IdleCall EXCEPT !.pc = "write", !.kind = "routeExcel", !.doc = d,
                         !.ext = fileExtension(d.name),
                         !.path = tempFilePath(clock, Name_tempExcel)]]
  /\ UNCHANGED << clock, tmp, compressVars, uploadVars, analyzeVars >>

ExcelWriteFail(i) ==
  /\ call[i].pc = "write"
  /\ call[i].kind = "routeExcel"
  /\ call' = [call EXCEPT ![i] = ExcelCatch(@, ErrOf("writeFile"))]
  /\ UNCHANGED << clock, tmp, compressVars, uploadVars, analyzeVars >>

\* writeFile resolves, then XLSX.readFile .. JSON.stringify run synchronously:
\* either they throw (the catch returns, nothing is unlinked) or the unlink
\* is awaited
ExcelWriteOk(i) ==
  /\ call[i].pc = "write"
  /\ call[i].kind = "routeExcel"
  /\ tmp' = {e \in tmp : e.path # call[i].path} \cup {[path |-> call[i].path, owner |-> i]}
  /\ LET c == [call[i] EXCEPT !.written = TRUE, !.step = 1, !.tried = << "xlsxAllRows" >>]
     IN \/ \E n \in RouteLens :
             call' = [call EXCEPT ![i] = [c EXCEPT !.pc = "unlinkOk", !.raw = n,
                                                   !.text = RawText(n)]]
        \/ call' = [call EXCEPT ![i] =
                      ExcelCatch([c EXCEPT !.errs = << ErrOf("xlsxAllRows") >>],
                                 ErrOf("xlsxAllRows"))]
  /\ UNCHANGED << clock, compressVars, uploadVars, analyzeVars >>

\* await fs.promises.unlink(tempFilePath) resolves: return resultText
ExcelUnlinkOk(i) ==
  /\ call[i].pc = "unlinkOk"
  /\ call[i].kind = "routeExcel"
  /\ Exists(call[i].path)
  /\ tmp' = {e \in tmp : e.path # call[i].path}
  /\ call' = [call EXCEPT ![i] = [@ EXCEPT !.pc = "returned", !.path = << >>, !.unlinks = @ + 1]]
  /\ UNCHANGED << clock, compressVars, uploadVars, analyzeVars >>

\* the unlink rejects: the catch returns its message as the text
ExcelUnlinkFail(i) ==
  /\ call[i].pc = "unlinkOk"
  /\ call[i].kind = "routeExcel"
  /\ call' = [call EXCEPT ![i] =
        ExcelCatch([@ EXCEPT !.unlinks = @ + 1, !.unlinkFailed = TRUE], ErrOf("unlink"))]
  /\ UNCHANGED << clock, tmp, compressVars, uploadVars, analyzeVars >>

\* the clock advances
Tick ==
  /\ clock < MaxClock
  /\ clock' = clock + 1
  /\ UNCHANGED << tmp, call, compressVars, uploadVars, analyzeVars >>

\* -------------------------------------------------------- POST /api/upload
\* (the first of the two versions of the route in routes.ts, lines 93-190)
\* the k-th file of a request: originalname, size, and the number of
\* characters of text its content holds
UploadFile(k, kind) ==
  CASE kind = "txt" ->
         [name |-> << Digits[k] >> \o Name_txt, size |-> SmallFile, chars |-> SmallText]
    [] kind = "txtLong" ->
         [name |-> << Digits[k] >> \o Name_txt, size |-> SmallFile, chars |-> TextCeiling + 1]
    [] kind = "xlsxLong" ->
         [name |-> << Digits[k] >> \o Name_xlsx, size |-> SmallFile, chars |-> TextCeiling + 1]
    [] OTHER ->
         [name |-> << Digits[k] >> \o Name_exe, size |-> SmallFile, chars |-> 0]

UploadKinds == {"txt", "txtLong", "xlsxLong", "exe"}

\* the requests: up to MaxFiles short text files; the first file, or the last
\* one of a request of MaxFiles files, may be replaced by a file of another kind
UploadRequests ==
  { [k \in 1..n |-> UploadFile(k, IF k = j THEN kind ELSE "txt")] :
      n \in 0..MaxFiles, j \in {1, MaxFiles}, kind \in UploadKinds }

NoResponse == [status |-> 0, message |-> << >>, fileName |-> << >>, files |-> << >>]
NoItem == [pc |-> "pending", extension |-> << >>, text |-> NoText, error |-> NoError]

\* fileSchemas.push({ file, schema, extension: path.extname(..).toLowerCase() })
FileSchemas(fs) ==
  [k \in 1..Len(fs) |-> [NoItem EXCEPT !.extension = fileExtension(fs[k].name)]]

\* extension === '.xlsx' || extension === '.xls'
IsExcelUpload(extension) ==
  extension \in { << ".", "x", "l", "s", "x" >>, << ".", "x", "l", "s" >> }

\* what await processExcelFile(file.buffer) resolves with: the whole sheet as
\* text, or the message of its catch
ExcelOutcomes(f) ==
  { RawText(f.chars),
    MessageText(<< "Failed to process Excel file: " >> \o ErrOf("xlsxAllRows")) }

\* what await extractTextFromFile(file.buffer, file.originalname) resolves
\* with: the failure of the default case, the text, or the failure of the
\* outer catch
ExtractOutcomes(f, ext) ==
  LET chain == Chain(Format(ext), f.size)
  IN IF Format(ext) = "unsupported"
     THEN { [text |-> NoText, error |-> << "Unsupported file type: " >> \o ext] }
     ELSE { [text |-> Truncate(RawText(f.chars)), error |-> NoError],
            [text |-> NoText,
             error |-> << "Failed to extract text: " >> \o
               ProcessingError(Format(ext), [k \in 1..Len(chain) |-> ErrOf(chain[k])])] }

\* a mutation of Batch: the slice without its end
BatchToEnd(start, n) ==
  {k \in 1..n : start <= k}

\* fileSchemas.slice(i, i + batchSize), as indices
Batch(start, n) ==
  {k \in 1..n : start <= k /\ k < start + BatchSize}

\* processBatch(batch): every promise of the batch runs up to its first await
StartBatch(its, start) ==
  [k \in DOMAIN its |->
     IF k \in Batch(start, Len(its)) THEN [its[k] EXCEPT !.pc = "extracting"] ELSE its[k]]

\* throw new Error(`Failed to process file ${file.originalname}: ${errorMessage}`)
FailureMessage(f, msg) == << "Failed to process file " >> \o f.name \o << ": " >> \o msg

\* a mutation of Upload: the files are handed to the first batch before the
\* validation loop has answered
UploadExtractsFirst(fs, bad) ==
  /\ upc = "idle"
  /\ bad <= Len(fs)
  /\ files' = fs
  /\ IF fs = << >>
     THEN /\ res' = [NoResponse EXCEPT !.status = 400, !.message = << "No files uploaded" >>]
          /\ upc' = "done"
          /\ UNCHANGED << items, batchStart >>
     ELSE IF bad > 0
     THEN /\ res' = [NoResponse EXCEPT !.status = 400, !.message = << "Invalid file data" >>,
                                       !.fileName = fs[bad].name]
          /\ upc' = "done"
          /\ batchStart' = 1
          /\ items' = StartBatch(FileSchemas(fs), 1)
     ELSE /\ upc' = "batches"
          /\ batchStart' = 1
          /\ items' = StartBatch(FileSchemas(fs), 1)
          /\ res' = res
  /\ UNCHANGED << stored, uploadedFiles, extractVars, compressVars, analyzeVars >>

\* the request arrives; multer has put its files in req.files.  No file, or a
\* file (the bad-th) whose schema validation fails: 400.  Otherwise the first
\* batch is started.
Upload(fs, bad) ==
  /\ upc = "idle"
  /\ bad <= Len(fs)
  /\ files' = fs
  /\ IF fs = << >>
     THEN /\ res' = [NoResponse EXCEPT !.status = 400, !.message = << "No files uploaded" >>]
          /\ upc' = "done"
          /\ UNCHANGED << items, batchStart >>
     ELSE IF bad > 0
     THEN /\ res' = [NoResponse EXCEPT !.status = 400, !.message = << "Invalid file data" >>,
                                       !.fileName = fs[bad].name]
          /\ upc' = "done"
          /\ UNCHANGED << items, batchStart >>
     ELSE /\ upc' = "batches"
          /\ batchStart' = 1
          /\ items' = StartBatch(FileSchemas(fs), 1)
          /\ res' = res
  /\ UNCHANGED << stored, uploadedFiles, extractVars, compressVars, analyzeVars >>

\* the promise of files[k] rejects with msg; Promise.all rejects with the
\* first rejection, and the catch of the handler answers 500
Reject(k, msg) ==
  /\ items' = [items EXCEPT ![k] = [@ EXCEPT !.pc = "failed",
                                             !.error = FailureMessage(files[k], msg)]]
  /\ IF upc = "batches"
     THEN /\ upc' = "done"
          /\ res' = [NoResponse EXCEPT !.status = 500,
                                       !.message = FailureMessage(files[k], msg)]
     ELSE UNCHANGED << upc, res >>
  /\ UNCHANGED << files, batchStart, stored, uploadedFiles >>

\* await processExcelFile(..) resolves: storage.createFile is called with the
\* string it returned
ExcelSettles(k, text) ==
  /\ k \in DOMAIN items
  /\ items[k].pc = "extracting"
  /\ IsExcelUpload(items[k].extension)
  /\ items' = [items EXCEPT ![k] = [@ EXCEPT !.pc = "saving", !.text = text]]
  /\ UNCHANGED << upc, files, batchStart, stored, uploadedFiles, res,
                  extractVars, compressVars, analyzeVars >>

\* await extractTextFromFile(..) resolves: contentResult.error is thrown, or
\* storage.createFile is called with contentResult.text
ExtractSettles(k, contentResult) ==
  /\ k \in DOMAIN items
  /\ items[k].pc = "extracting"
  /\ ~IsExcelUpload(items[k].extension)
  /\ IF contentResult.error # NoError
     THEN Reject(k, contentResult.error)
     ELSE /\ items' = [items EXCEPT ![k] = [@ EXCEPT !.pc = "saving",
                                                     !.text = contentResult.text]]
          /\ UNCHANGED << upc, files, batchStart, stored, uploadedFiles, res >>
  /\ UNCHANGED << extractVars, compressVars, analyzeVars >>

\* await storage.createFile(..) resolves.  When it is the last promise of the
\* batch, Promise.all resolves: the batch's results are pushed, and the next
\* batch is started or the response is sent
CreateFileOk(k) ==
  /\ k \in DOMAIN items
  /\ items[k].pc = "saving"
  /\ stored' = stored \cup {[name |-> files[k].name, content |-> items[k].text]}
  /\ LET saved == [items EXCEPT ![k] = [@ EXCEPT !.pc = "saved"]]
         batch == Batch(batchStart, Len(files))
         results == [j \in 1..Cardinality(batch) |-> files[batchStart + j - 1].name]
     IN IF upc = "batches" /\ \A j \in batch : saved[j].pc = "saved"
        THEN /\ uploadedFiles' = uploadedFiles \o results
             /\ IF batchStart + BatchSize <= Len(files)
                THEN /\ batchStart' = batchStart + BatchSize
                     /\ items' = StartBatch(saved, batchStart + BatchSize)
                     /\ UNCHANGED << upc, res >>
                ELSE /\ upc' = "done"
                     /\ res' = [NoResponse EXCEPT !.status = 200,
                                                  !.files = uploadedFiles \o results]
                     /\ items' = saved
                     /\ UNCHANGED batchStart
        ELSE /\ items' = saved
             /\ UNCHANGED << upc, batchStart, uploadedFiles, res >>
  /\ UNCHANGED << files, extractVars, compressVars, analyzeVars >>

\* await storage.createFile(..) rejects
CreateFileFail(k) ==
  /\ k \in DOMAIN items
  /\ items[k].pc = "saving"
  /\ Reject(k, ErrOf("createFile"))
  /\ UNCHANGED << extractVars, compressVars, analyzeVars >>

\* ----------------------------------------- analyzeLessonsInChunks (openai.ts)
\* the standard codes the model's reports name
Codes == {"A", "B"}

\* standardsCoverage[code] of a code that has no entry: undefined
NoEntry == [description |-> "", coverage |-> 0 - 1, alignment |-> ""]

\* an element of result.standards
Std(code, description, coverage, alignment) ==
  [standardCode |-> code, standardDescription |-> description,
   coverage |-> coverage, alignment |-> alignment]

\* the arrays result.standards may be: a code reported by several chunks and
\* twice by one, with a coverage and an alignment that rise or fall
Reports ==
  { << >>,
    << Std("A", "first", 50, "Strong") >>,
    << Std("A", "second", 90, "Weak") >>,
    << Std("A", "first", 70, "Moderate"), Std("B", "other", 70, "Moderate") >>,
    << Std("B", "other", 90, "Weak"), Std("A", "first", 50, "Strong") >>,
    << Std("A", "second", 90, "Weak"), Std("A", "first", 50, "Strong") >> }

\* what JSON.parse(response.choices[0].message.content || "") gives: an
\* object with an array standards, an object without one, or a SyntaxError
NoContent == [parses |-> FALSE, hasStandards |-> FALSE, standards |-> << >>]
Contents ==
  { [parses |-> TRUE, hasStandards |-> TRUE, standards |-> r] : r \in Reports }
  \cup { [parses |-> TRUE, hasStandards |-> FALSE, standards |-> << >>], NoContent }

\* error.status of what fn may throw: a rate-limit error, or another error
ErrorStatuses == {RateLimited, 500}

\* const alignmentStrength = { 'Strong': 3, 'Moderate': 2, 'Weak': 1 }
alignmentStrength(alignment) ==
  CASE alignment = "Strong" -> 3
    [] alignment = "Moderate" -> 2
    [] alignment = "Weak" -> 1

\* a mutation of MergeStandard: the entry of a code seen before is replaced
\* by the later report
MergeStandardLatest(st, standard) ==
  LET code == standard.standardCode
      covered == IF \E k \in 1..Len(st.coveredStandards) : st.coveredStandards[k] = code
                 THEN st.coveredStandards
                 ELSE Append(st.coveredStandards, code)
      entry == [description |-> standard.standardDescription,
                coverage |-> standard.coverage,
                alignment |-> standard.alignment]
  IN [coveredStandards |-> covered,
      standardsCoverage |-> [st.standardsCoverage EXCEPT ![code] = entry]]

\* the body of for (const standard of result.standards)
MergeStandard(st, standard) ==
  LET code == standard.standardCode
      old == st.standardsCoverage[code]
      covered == IF \E k \in 1..Len(st.coveredStandards) : st.coveredStandards[k] = code
                 THEN st.coveredStandards
                 ELSE Append(st.coveredStandards, code)
      entry == IF old = NoEntry
               THEN [description |-> standard.standardDescription,
                     coverage |-> standard.coverage,
                     alignment |-> standard.alignment]
               ELSE [old EXCEPT
                       !.coverage = IF @ >= standard.coverage THEN @ ELSE standard.coverage,
                       !.alignment =
                          IF alignmentStrength(standard.alignment) > alignmentStrength(@)
                          THEN standard.alignment ELSE @]
  IN [coveredStandards |-> covered,
      standardsCoverage |-> [st.standardsCoverage EXCEPT ![code] = entry]]

RECURSIVE MergeStandards(_, _)
\* for (const standard of result.standards) { .. }
MergeStandards(st, standards) ==
  IF standards = << >> THEN st
  ELSE MergeStandards(MergeStandard(st, Head(standards)), Tail(standards))

\* no helper has ended yet
NoHelper == [attempts |-> << >>, result |-> "none", value |-> NoContent, status |-> 0]

\* a mutation of Caught: every error is retried until the retries run out
CaughtRetriesAll(r, status) ==
  IF r >= MaxRetries THEN "throw" ELSE "sleep"

\* the catch of withExponentialBackoff, retries being r: the error is thrown
\* on, or the helper sleeps and calls fn again
Caught(r, status) ==
  IF r >= MaxRetries THEN "throw"
  ELSE IF status = RateLimited THEN "sleep"
  ELSE "throw"

\* initialDelay * Math.pow(2, retries) * (0.5 + Math.random()): the least
\* and the greatest value
Delays(r) ==
  { (InitialDelay * 2^r) \div 2, (InitialDelay * 2^r * 3) \div 2 - 1 }

\* the chunk is over (merged, or failed and logged by the catch): the loop
\* goes on to the next chunk, whose call of withExponentialBackoff runs up
\* to its await fn(), or the function returns
NextChunk(outcome, helper) ==
  /\ outcomes' = Append(outcomes, outcome)
  /\ last' = helper
  /\ chunk' = chunk + MAX_LESSONS_PER_CHUNK
  /\ retries' = 0
  /\ attempts' = << >>
  /\ delay' = 0
  /\ apc' = IF chunk + MAX_LESSONS_PER_CHUNK < lessons THEN "call" ELSE "done"

\* analyzeLessonsInChunks(lessons, ..) with n lessons, up to the first await
Analyze(n) ==
  /\ apc = "idle"
  /\ lessons' = n
  /\ apc' = IF 0 < n THEN "call" ELSE "done"
  /\ UNCHANGED << chunk, retries, attempts, delay, coveredStandards, standardsCoverage,
                  seen, outcomes, last >>
  /\ UNCHANGED << extractVars, compressVars, uploadVars >>

\* await fn() resolves: withExponentialBackoff returns the response, its
\* content is parsed and the standards are merged; a SyntaxError of
\* JSON.parse goes to the catch of the chunk
FnResolves(content) ==
  /\ apc = "call"
  /\ LET helper == [attempts |-> Append(attempts, 200), result |-> "returned",
                    value |-> content, status |-> 200]
         merged == MergeStandards([coveredStandards |-> coveredStandards,
                                   standardsCoverage |-> standardsCoverage],
                                  content.standards)
     IN IF ~content.parses
        THEN /\ NextChunk("failed", helper)
             /\ UNCHANGED << coveredStandards, standardsCoverage, seen >>
        ELSE IF ~content.hasStandards
        THEN /\ NextChunk("merged", helper)
             /\ UNCHANGED << coveredStandards, standardsCoverage, seen >>
        ELSE /\ NextChunk("merged", helper)
             /\ coveredStandards' = merged.coveredStandards
             /\ standardsCoverage' = merged.standardsCoverage
             /\ seen' = seen \cup {content.standards[k] : k \in 1..Len(content.standards)}
  /\ UNCHANGED lessons
  /\ UNCHANGED << extractVars, compressVars, uploadVars >>

\* await fn() rejects with an error of the given status: the helper throws it
\* on (the catch of the chunk logs it and the loop continues), or awaits the
\* timer of its delay
FnRejects(status) ==
  /\ apc = "call"
  /\ IF Caught(retries, status) = "throw"
     THEN /\ NextChunk("failed", [attempts |-> Append(attempts, status), result |-> "threw",
                                  value |-> NoContent, status |-> status])
          /\ UNCHANGED << coveredStandards, standardsCoverage, seen >>
     ELSE /\ apc' = "sleep"
          /\ attempts' = Append(attempts, status)
          /\ delay' \in Delays(retries)
          /\ UNCHANGED << chunk, retries, coveredStandards, standardsCoverage,
                          seen, outcomes, last >>
  /\ UNCHANGED lessons
  /\ UNCHANGED << extractVars, compressVars, uploadVars >>

\* the timer fires: retries++, and fn is called again
TimerFires ==
  /\ apc = "sleep"
  /\ retries' = retries + 1
  /\ delay' = 0
  /\ apc' = "call"
  /\ UNCHANGED << lessons, chunk, attempts, coveredStandards, standardsCoverage,
                  seen, outcomes, last >>
  /\ UNCHANGED << extractVars, compressVars, uploadVars >>

\* ---------------------------------------------------------- specification
Init ==
  /\ clock = 0
  /\ tmp = {}
  /\ call = [i \in Calls |-> IdleCall]
  /\ cpc = "off"
  /\ cin = << >>
  /\ cout = << >>
  /\ cout2 = << >>
  /\ upc = "idle"
  /\ files = << >>
  /\ items = << >>
  /\ batchStart = 0
  /\ stored = {}
  /\ uploadedFiles = << >>
  /\ res = NoResponse
  /\ apc = "idle"
  /\ lessons = 0
  /\ chunk = 0
  /\ retries = 0
  /\ attempts = << >>
  /\ delay = 0
  /\ coveredStandards = << >>
  /\ standardsCoverage = [code \in Codes |-> NoEntry]
  /\ seen = {}
  /\ outcomes = << >>
  /\ last = NoHelper

\* the upload route: the extractions of a batch run concurrently
Next ==
  \/ Tick
  \/ \E i \in Calls, d \in RouteDocs : call[i].pc = "idle" /\ ~IsExcel(d) /\ Call(i, d)
  \/ \E i \in Calls, d \in RouteDocs : call[i].pc = "idle" /\ IsExcel(d) /\ ExcelCall(i, d)
  \/ \E i \in Calls : WriteFail(i)
  \/ \E i \in Calls : WriteOk(i, RouteLens)
  \/ \E i \in Calls, n \in RouteLens : MethodOk(i, n)
  \/ \E i \in Calls : MethodFail(i, RouteLens)
  \/ \E i \in Calls : UnlinkOk(i)
  \/ \E i \in Calls : UnlinkFail(i)
  \/ \E i \in Calls : ExcelWriteFail(i)
  \/ \E i \in Calls : ExcelWriteOk(i)
  \/ \E i \in Calls : ExcelUnlinkOk(i)
  \/ \E i \in Calls : ExcelUnlinkFail(i)

Spec == Init /\ [][Next]_vars

\* one call of extractTextFromFile on its own, on every kind of document
NextDirect ==
  \/ Tick
  \/ \E d \in DirectDocs : Call(1, d)
  \/ WriteFail(1)
  \/ WriteOk(1, DirectLens)
  \/ \E n \in DirectLens : MethodOk(1, n)
  \/ MethodFail(1, DirectLens)
  \/ UnlinkOk(1)
  \/ UnlinkFail(1)

SpecDirect == Init /\ [][NextDirect]_vars

\* the lengths of a method's output, one of them above maxBuffer
ExecLens == {SmallText, ExecMaxBufferMiB * MiB + 1}

\* a pending operation of the call settles: the file operation completes,
\* the child process exits, or exec's limit ends it
Settle ==
  \/ WriteFail(1)
  \/ WriteOk(1, ExecLens)
  \/ \E n \in ExecLens : MethodOk(1, n)
  \/ MethodFail(1, ExecLens)
  \/ \E limit \in ExecLimits : LimitExceeded(1, ExecLens, limit)
  \/ UnlinkOk(1)
  \/ UnlinkFail(1)

\* one call of extractTextFromFile whose child processes may hang or
\* overrun their output
NextExec ==
  \/ \E d \in DirectDocs : Call(1, d)
  \/ Hang(1)
  \/ Settle

\* the runtime settles every pending operation in the end
SpecExec == Init /\ [][NextExec]_vars /\ WF_vars(Settle)

\* ------------------------------------------------------ compressText runs
\* const compressed = compressText(f.content)
CompressOnce ==
  /\ cpc = "input"
  /\ cpc' = "once"
  /\ cout' = compressText(cin)
  /\ UNCHANGED << cin, cout2, extractVars, uploadVars, analyzeVars >>

\* the compressor applied to its own output
CompressTwice ==
  /\ cpc = "once"
  /\ cpc' = "twice"
  /\ cout2' = compressText(cout)
  /\ UNCHANGED << cin, cout, extractVars, uploadVars, analyzeVars >>

InitCompress ==
  /\ clock = 0
  /\ tmp = {}
  /\ call = [i \in Calls |-> IdleCall]
  /\ cpc = "input"
  /\ cin \in InputTexts \cup ParagraphTexts
  /\ cout = << >>
  /\ cout2 = << >>
  /\ upc = "idle"
  /\ files = << >>
  /\ items = << >>
  /\ batchStart = 0
  /\ stored = {}
  /\ uploadedFiles = << >>
  /\ res = NoResponse
  /\ apc = "idle"
  /\ lessons = 0
  /\ chunk = 0
  /\ retries = 0
  /\ attempts = << >>
  /\ delay = 0
  /\ coveredStandards = << >>
  /\ standardsCoverage = [code \in Codes |-> NoEntry]
  /\ seen = {}
  /\ outcomes = << >>
  /\ last = NoHelper

NextCompress == CompressOnce \/ CompressTwice

SpecCompress == InitCompress /\ [][NextCompress]_vars

\* ------------------------------------------------------ one upload request
NextUpload ==
  \/ \E fs \in UploadRequests, bad \in 0..MaxFiles : Upload(fs, bad)
  \/ \E k \in DOMAIN items : \E text \in ExcelOutcomes(files[k]) : ExcelSettles(k, text)
  \/ \E k \in DOMAIN items :
        \E r \in ExtractOutcomes(files[k], items[k].extension) : ExtractSettles(k, r)
  \/ \E k \in DOMAIN items : CreateFileOk(k)
  \/ \E k \in DOMAIN items : CreateFileFail(k)

SpecUpload == Init /\ [][NextUpload]_vars

\* fn settles, or the timer of the delay fires
Respond ==
  \/ \E content \in Contents : FnResolves(content)
  \/ \E status \in ErrorStatuses : FnRejects(status)
  \/ TimerFires

\* one analysis of up to MaxLessons lessons
NextAnalyze ==
  \/ \E n \in 0..MaxLessons : Analyze(n)
  \/ Respond

\* the API call settles and the timer fires in the end
SpecAnalyze == Init /\ [][NextAnalyze]_vars /\ WF_vars(Respond)

\* ------------------------------------------------------------- properties
Returned(c) == c.pc = "returned" /\ c.kind = "extract"
OwnsArtifact(i) == \E e \in tmp : e.owner = i
Mentions(reason, fragment) == \E k \in 1..Len(reason) : reason[k] = fragment
HasMarker(text) == \E k \in 1..Len(text) : text[k] = Marker

RECURSIVE WordsFrom(_, _)
WordsFrom(s, current) ==
  IF s = << >> THEN (IF current = << >> THEN << >> ELSE << current >>)
  ELSE IF IsWhitespace(Head(s))
       THEN (IF current = << >> THEN << >> ELSE << current >>) \o WordsFrom(Tail(s), << >>)
       ELSE WordsFrom(Tail(s), Append(current, Head(s)))
\* the words of a text: its longest runs of characters that are not whitespace
Words(s) == WordsFrom(s, << >>)

RECURSIVE IsSubsequence(_, _)
\* a is b with some of its members left out, the others in b's order
IsSubsequence(a, b) ==
  IF a = << >> THEN TRUE
  ELSE IF b = << >> THEN FALSE
  ELSE IF Head(a) = Head(b) THEN IsSubsequence(Tail(a), Tail(b))
  ELSE IsSubsequence(a, Tail(b))

\* the blank-line-delimited paragraphs of a text
InputParagraphs(text) == Split(ReplaceCRLF(text))
\* the number of places of s at which p occurs
Occurrences(p, s) ==
  Cardinality({k \in 0..(Len(s) - Len(p)) : SubSeq(s, k + 1, k + Len(p)) = p})
\* the number of paragraphs of a text
ParagraphCount(text) == Len(SelectSeq(Split(text), LAMBDA p : p # << >>))

\* C1: a call of extractTextFromFile on a supported extension that has written
\* its temporary artifact has performed one unlink of it when it returns,
\* whichever way it ends (primary method, fallback method, every method
\* failed); unless that unlink was rejected, the artifact is gone.
C1_UnlinkOnEveryExit ==
  \A i \in Calls :
    (Returned(call[i]) /\ call[i].written /\ Format(call[i].ext) # "unsupported")
      => /\ call[i].unlinks = 1
         /\ ~call[i].unlinkFailed => ~OwnsArtifact(i)

\* a PDF whose two methods both failed: the call returns the failure and has
\* unlinked the artifact
C1_Witness ==
  \E i \in Calls :
    /\ Returned(call[i]) /\ call[i].written
    /\ Format(call[i].ext) = "pdf" /\ Len(call[i].tried) = 2
    /\ call[i].error # NoError
    /\ call[i].unlinks = 1 /\ ~OwnsArtifact(i)

\* C2: for an extension outside the supported set, extractTextFromFile returns
\* the failure "Unsupported file type: <ext>" and the artifact it staged no
\* longer exists when it returns.
C2_UnsupportedReleasesArtifact ==
  \A i \in Calls :
    (Returned(call[i]) /\ call[i].written /\ Format(call[i].ext) = "unsupported")
      => /\ call[i].error = << "Unsupported file type: " >> \o call[i].ext
         /\ ~OwnsArtifact(i)

\* C3: once concurrent calls of extractTextFromFile on distinct documents have
\* all returned (no unlink having been rejected), the temp location holds
\* what it held before them: nothing.
C3_NoArtifactLeftBehind ==
  ( /\ \A i \in Calls : Returned(call[i]) /\ ~call[i].unlinkFailed
    /\ \A i, j \in Calls : i # j => call[i].doc # call[j].doc )
  => tmp = {}

\* C4: two invocations in flight at the same time, each having staged its
\* bytes, never have the same artifact path.
C4_UniqueArtifactPath ==
  \A i, j \in Calls :
    (i # j /\ InFlight(call[i]) /\ InFlight(call[j]) /\ call[i].written /\ call[j].written)
      => call[i].path # call[j].path

\* C5: a paragraph of at least 10 characters that occurs more than once among
\* the blank-line-delimited paragraphs of the input occurs exactly once in
\* compressText's output.
C5_OneCopyOfDuplicates ==
  cpc # "input" =>
    LET ps == InputParagraphs(cin)
    IN \A a, b \in 1..Len(ps) :
         (a # b /\ ps[a] = ps[b] /\ Len(ps[a]) >= MinParagraphLength)
           => Occurrences(ps[a], cout) = 1

\* C6: compressText(compressText(x)) has as many paragraphs as compressText(x).
C6_SecondPassKeepsParagraphCount ==
  cpc = "twice" => ParagraphCount(cout2) = ParagraphCount(cout)

\* a text the first pass shortened to one paragraph, passed through again
C6_Witness ==
  /\ cpc = "twice"
  /\ Len(cout) < Len(cin)
  /\ ParagraphCount(cout) = 1
  /\ ParagraphCount(cout2) = 1

\* C7: compressText(x) is never longer than x.
C7_NeverLonger ==
  /\ cpc # "input" => Len(cout) <= Len(cin)
  /\ cpc = "twice" => Len(cout2) <= Len(cout)

\* an input with a line break the output keeps as one space: same length
C7_Witness ==
  /\ cpc = "once"
  /\ \E k \in 1..Len(cin) : cin[k] = "\n"
  /\ Len(cout) = Len(cin)
  /\ Len(cout) >= MinParagraphLength

\* C8: what survives in compressText(x) is in the order of x: the lists the
\* steps build are subsequences of the list before them, and the words of the
\* output are words of x in x's order.
C8_OrderPreserved ==
  cpc # "input" =>
    /\ IsSubsequence(FilteredParagraphs(cin), Paragraphs(cin))
    /\ IsSubsequence(FinalParagraphs(cin), FilteredParagraphs(cin))
    /\ IsSubsequence(Words(cout), Words(cin))

\* two different paragraphs separated by a blank line, both in the output,
\* the first one first
C8_Witness ==
  /\ cpc = "once"
  /\ Len(InputParagraphs(cin)) = 2
  /\ InputParagraphs(cin)[1] # InputParagraphs(cin)[2]
  /\ Words(cout) = << InputParagraphs(cin)[1], InputParagraphs(cin)[2] >>

\* C9: for an extension that is not recognised, extractTextFromFile returns a
\* failure that mentions "Unsupported", and no extraction method was invoked.
C9_UnsupportedReason ==
  \A i \in Calls :
    (Returned(call[i]) /\ Format(call[i].ext) = "unsupported")
      => /\ Mentions(call[i].error, "Unsupported file type: ")
         /\ call[i].tried = << >>

\* C10: when the extractor's output is longer than the ceiling, the text
\* extractTextFromFile returns holds the truncation marker and is at most as
\* long as the ceiling.
C10_TruncatedBelowCeiling ==
  \A i \in Calls :
    (Returned(call[i]) /\ call[i].raw > TextCeiling)
      => /\ HasMarker(call[i].text)
         /\ TextLength(call[i].text) <= TextCeiling

\* six megabytes of extracted text returned truncated
C10_Witness ==
  \E i \in Calls :
    /\ Returned(call[i]) /\ call[i].raw = 6 * MiB
    /\ call[i].error = NoError
    /\ HasMarker(call[i].text)
    /\ TextLength(call[i].text) = DefaultChunkSize + MarkerLength

\* the first method of the call's chain
Primary(c) == Chain(Format(c.ext), c.doc.size)[1]
\* the formats with a fallback chain
HasFallback(c) == Format(c.ext) \in {"pdf", "word", "excel", "ppt"}
\* the call's k-th attempt ran the raw string scan
IsStringScan(c, k) == Extractor(c.tried[k]) = "strings"

\* no promise of the request is pending on an await any more
Quiescent ==
  /\ upc = "done"
  /\ \A k \in DOMAIN items : items[k].pc \notin {"extracting", "saving"}
\* the files of the request whose promise rejected
FailedFiles == {k \in DOMAIN items : items[k].pc = "failed"}

\* C11: the content of every record the upload route has stored is at most as
\* long as the ceiling, Excel uploads (extracted by the route's
\* processExcelFile) included.
C11_PersistedTextBounded ==
  \A r \in stored : TextLength(r.content) <= TextCeiling

\* C12: a .pdf call whose primary method (pdf-parse, or the 20000-line scan of
\* a PDF above 30 MiB) failed and whose string scan then produced non-empty
\* output returns that output (truncated when above the ceiling) without an
\* error.
C12_PdfFallbackSuccess ==
  \A i \in Calls :
    ( /\ Returned(call[i]) /\ Format(call[i].ext) = "pdf"
      /\ Len(call[i].tried) = 2 /\ Len(call[i].errs) = 1 /\ call[i].raw > 0 )
      => /\ call[i].errs[1] = ErrOf(Primary(call[i]))
         /\ call[i].tried[2] = "strings10000"
         /\ call[i].error = NoError
         /\ call[i].text = Truncate(RawText(call[i].raw))
         /\ TextLength(call[i].text) > 0

\* a PDF above 30 MiB: the first scan failed, the second returned text
C12_Witness ==
  \E i \in Calls :
    /\ Returned(call[i])
    /\ call[i].tried = << "strings20000", "strings10000" >>
    /\ call[i].errs = << ErrOf("strings20000") >>
    /\ call[i].raw = SmallText
    /\ call[i].error = NoError

\* C13 as stated: for PDF, Word, Excel and PowerPoint a failure of the primary
\* method is always followed by an attempt of the raw string scan before the
\* call ends, and the call returns a failure only if that scan threw.
C13_ScanAlwaysAttempted ==
  \A i \in Calls :
    (Returned(call[i]) /\ HasFallback(call[i]) /\ call[i].errs # << >>)
      => /\ \E k \in 2..Len(call[i].tried) : IsStringScan(call[i], k)
         /\ call[i].error # NoError =>
              /\ IsStringScan(call[i], Len(call[i].tried))
              /\ Len(call[i].errs) = Len(call[i].tried)

\* C13, amended: for PDF, Word, Excel and PowerPoint a failure of the primary
\* method is always followed by an attempt of the next method of the format;
\* the raw string scan is attempted unless a method before it produced text
\* (the second workbook read of the Excel case), and the call returns a
\* failure only if the string scan was attempted last and threw.  A returned
\* call is a success exactly when one of its methods produced text.
C13_ScanBeforeFailure ==
  \A i \in Calls :
    (Returned(call[i]) /\ HasFallback(call[i]) /\ call[i].errs # << >>)
      => /\ Len(call[i].tried) >= 2
         /\ call[i].error # NoError =>
              /\ IsStringScan(call[i], Len(call[i].tried))
              /\ Len(call[i].errs) = Len(call[i].tried)
              /\ call[i].raw < 0
         /\ call[i].error = NoError =>
              /\ Len(call[i].errs) = Len(call[i].tried) - 1
              /\ call[i].raw >= 0
         /\ (\A k \in 1..Len(call[i].tried) : ~IsStringScan(call[i], k)) =>
              /\ call[i].error = NoError
              /\ call[i].tried[Len(call[i].tried)] = "xlsxRows1000"

\* an Excel call whose three methods all failed, the string scan last
C13_Witness ==
  \E i \in Calls :
    /\ Returned(call[i])
    /\ call[i].tried = << "excelProcessor", "xlsxRows1000", "strings5000" >>
    /\ Len(call[i].errs) = 3
    /\ call[i].error # NoError

\* C14: an Excel call on more than 20 MiB whose first workbook read succeeds
\* used XLSX.readFile with sheetRows 2000 and nothing else, returns a success,
\* and the text holds no row beyond the first 2000 of the worksheet.
C14_LargeExcelRowCap ==
  \A i \in Calls :
    ( /\ Returned(call[i]) /\ Format(call[i].ext) = "excel"
      /\ LargerThanMB(call[i].doc.size, ExcelLargeMB)
      /\ call[i].errs = << >> /\ call[i].raw >= 0 )
      => /\ call[i].tried = << "xlsxRows2000" >>
         /\ call[i].error = NoError
         /\ call[i].rows <= LargeSheetRows
         /\ call[i].rows <= call[i].sheet
         /\ call[i].sheet <= LargeSheetRows => call[i].rows = call[i].sheet

\* a workbook above 20 MiB with more rows than the cap, returned capped
C14_Witness ==
  \E i \in Calls :
    /\ Returned(call[i])
    /\ call[i].doc = [name |-> Name_xlsx, size |-> ExcelLargeMB * MiB + 1]
    /\ call[i].sheet > LargeSheetRows
    /\ call[i].rows = LargeSheetRows
    /\ call[i].error = NoError

\* C15: a value returned by extractTextFromFile has no error, or has an error
\* and the empty text.
C15_ExactlyOneVariant ==
  \A i \in Calls :
    Returned(call[i]) => (call[i].error = NoError \/ call[i].text = NoText)

\* a failure returned after two methods were attempted
C15_Witness ==
  \E i \in Calls :
    /\ Returned(call[i])
    /\ Len(call[i].tried) = 2
    /\ call[i].error # NoError
    /\ call[i].text = NoText

\* C16: a call of extractTextFromFile ends by returning: a rejected staging
\* write and the failure of every method are returned as failures, and a
\* rejected unlink leaves the success a success.
C16_NoExceptionEscapes ==
  \A i \in Calls :
    call[i].kind = "extract" =>
      /\ call[i].pc \in {"write", "await", "unlinkOk", "unlinkErr", "returned"}
      /\ (Returned(call[i]) /\ ~call[i].written) =>
           call[i].error = << "Failed to extract text: " >> \o ErrOf("writeFile")
      /\ (Returned(call[i]) /\ call[i].written /\ call[i].tried # << >> /\ call[i].raw < 0) =>
           call[i].error = << "Failed to extract text: " >>
                             \o ProcessingError(Format(call[i].ext), call[i].errs)
      /\ (Returned(call[i]) /\ call[i].raw >= 0) => call[i].error = NoError

\* every method failed and then the unlink of the artifact failed too: the
\* call returned the failure of the methods
C16_Witness ==
  \E i \in Calls :
    /\ Returned(call[i])
    /\ call[i].thrown # << >>
    /\ call[i].unlinkFailed
    /\ call[i].error = << "Failed to extract text: " >> \o call[i].thrown

\* C17: when one document of an upload fails and nothing of the request is
\* running any more, every other document has been extracted and stored, and
\* the response names the failed document and gives its reason.
C17_OtherDocumentsProceed ==
  (Quiescent /\ Cardinality(FailedFiles) = 1)
    => /\ \A k \in DOMAIN items \ FailedFiles :
            /\ items[k].pc = "saved"
            /\ \E r \in stored : r.name = files[k].name
       /\ \A k \in FailedFiles :
            /\ res.status = 500
            /\ res.message = items[k].error
            /\ Includes(res.message, files[k].name)
            /\ \E r \in ExtractOutcomes(files[k], items[k].extension) \cup
                         {[text |-> NoText, error |-> ErrOf("createFile")]} :
                  r.error # NoError /\ Includes(res.message, r.error)

\* C18: a rejected unlink of the artifact does not change the outcome: the
\* text a method produced is returned as it would have been, the failure of
\* the methods is the failure returned; in extractTextFromFile and in the
\* route's processExcelFile.
C18_UnlinkFailureKeepsOutcome ==
  \A i \in Calls :
    (call[i].pc = "returned" /\ call[i].unlinkFailed)
      => IF call[i].raw >= 0
         THEN /\ call[i].error = NoError
              /\ call[i].text = IF call[i].kind = "extract"
                                THEN Truncate(RawText(call[i].raw))
                                ELSE RawText(call[i].raw)
         ELSE call[i].error = << "Failed to extract text: " >> \o call[i].thrown

\* C19: within one call of extractTextFromFile no extractor is run a second
\* time: the attempts of the call are attempts of different extractors.
C19_NoMethodAttemptedAgain ==
  \A i \in Calls :
    call[i].kind = "extract" =>
      \A a, b \in 1..Len(call[i].tried) :
        a < b => Extractor(call[i].tried[a]) # Extractor(call[i].tried[b])

\* C20: a blank-line-delimited paragraph of the input shorter than 10
\* characters (one word, part of no other paragraph) does not occur in
\* compressText's output; a one-word paragraph of 10 characters or more does.
C20_ShortParagraphsDropped ==
  cpc # "input" =>
    LET ps == InputParagraphs(cin)
    IN \A a \in 1..Len(ps) :
         (ps[a] # << >> /\ \A k \in 1..Len(ps[a]) : ~IsWhitespace(ps[a][k]))
           => IF Len(ps[a]) < MinParagraphLength
              THEN (\A b \in 1..Len(ps) : ~Includes(ps[b], ps[a]) \/ b = a)
                     => Occurrences(ps[a], cout) = 0
              ELSE Occurrences(ps[a], cout) >= 1

\* C26: when every method fails for a PDF or an Excel document, the reason
\* extractTextFromFile returns is "Failed to extract text: <Format> processing
\* error: " followed by the message of the error the primary attempt raised,
\* not by the message of a later fallback's error.
C26_ReasonEmbedsPrimaryError ==
  \A i \in Calls :
    ( /\ Returned(call[i]) /\ Format(call[i].ext) \in {"pdf", "excel"}
      /\ call[i].tried # << >> /\ Len(call[i].errs) = Len(call[i].tried) )
      => /\ call[i].error =
              << "Failed to extract text: ",
                 IF Format(call[i].ext) = "pdf" THEN "PDF processing error: "
                 ELSE "Excel processing error: " >>
              \o ErrOf(Primary(call[i]))
         /\ \A k \in 2..Len(call[i].tried) :
              call[i].tried[k] # Primary(call[i])
                => ~Mentions(call[i].error, call[i].tried[k])

\* a PDF of ordinary size: pdf-parse failed, then the string scan failed, and
\* the reason names pdf-parse
C26_Witness ==
  \E i \in Calls :
    /\ Returned(call[i])
    /\ call[i].tried = << "pdfParse", "strings10000" >>
    /\ call[i].errs = << ErrOf("pdfParse"), ErrOf("strings10000") >>
    /\ call[i].error = << "Failed to extract text: ", "PDF processing error: ",
                          "error of ", "pdfParse" >>

\* the characters [a, b) of an extractor's output
Slice(a, b) == [kind |-> "raw", from |-> a, to |-> b]

ChoseVariant(c) ==
  c.kind = "extract" /\ c.written /\ Format(c.ext) # "unsupported"

\* C22: the extraction variant is a function of the format and the byte size
\* alone, defined for every input: for PDF the fast variant (the 20000-line
\* string scan) exactly when the size is strictly greater than 30 MiB, for
\* Excel the fast variant (the workbook read capped at 2000 rows) exactly when
\* it is strictly greater than 20 MiB, the full variant otherwise; plain
\* text, Word and PowerPoint have one variant whatever the size.
C22_VariantBySize ==
  \A i \in Calls :
    ChoseVariant(call[i])
      => /\ call[i].tried # << >>
         /\ call[i].tried[1] =
              CASE Format(call[i].ext) = "pdf" ->
                     IF call[i].doc.size > 30 * 1024 * 1024
                     THEN "strings20000" ELSE "pdfParse"
                [] Format(call[i].ext) = "excel" ->
                     IF call[i].doc.size > 20 * 1024 * 1024
                     THEN "xlsxRows2000" ELSE "excelProcessor"
                [] Format(call[i].ext) = "txt" -> "readFile"
                [] Format(call[i].ext) = "word" -> "mammoth"
                [] Format(call[i].ext) = "ppt" -> "textract"
         /\ \A j \in Calls :
              ( /\ ChoseVariant(call[j])
                /\ Format(call[j].ext) = Format(call[i].ext)
                /\ call[j].doc.size = call[i].doc.size )
                => call[j].tried[1] = call[i].tried[1]

\* a PDF of exactly 30 MiB and a workbook of exactly 20 MiB take the full
\* variant
C22_Witness ==
  \E i \in Calls :
    /\ ChoseVariant(call[i])
    /\ \/ call[i].doc.size = 30 * 1024 * 1024 /\ call[i].tried[1] = "pdfParse"
       \/ call[i].doc.size = 20 * 1024 * 1024 /\ call[i].tried[1] = "excelProcessor"

\* the text is, or holds, the message of an error
IsErrorMessage(text) == \E k \in 1..Len(text) : text[k].kind = "message"

\* C25: the upload route stores a record only for a document whose extraction
\* succeeded, with the extracted text as its content: no stored record has
\* the message of an extraction error as its content, Excel documents (which
\* the route's processExcelFile extracts) included.
C25_OnlyExtractedTextStored ==
  \A r \in stored :
    /\ ~IsErrorMessage(r.content)
    /\ \E k \in DOMAIN files :
         /\ files[k].name = r.name
         /\ r.content \in {RawText(files[k].chars), Truncate(RawText(files[k].chars))}

\* the files of the request whose extraction is awaited
Extracting == {k \in DOMAIN items : items[k].pc = "extracting"}
\* the batch of the k-th file, counted from 0
BatchOf(k) == (k - 1) \div 5

\* C28: during one upload request at most 5 extractions are in flight at any
\* time; the documents are taken in batches of 5 consecutive files in upload
\* order, and no extraction of a batch starts before every extraction of the
\* batch before it has settled.
C28_BoundedConcurrency ==
  /\ Cardinality(Extracting) <= 5
  /\ \A k \in Extracting, j \in Extracting : BatchOf(j) = BatchOf(k)
  /\ \A k \in DOMAIN items :
       items[k].pc # "pending"
         => \A j \in 1..(k - 1) :
              /\ items[j].pc # "pending"
              /\ BatchOf(j) < BatchOf(k) => items[j].pc = "saved"

\* the sixth file of a request is being extracted, the five of the first
\* batch are stored
C28_Witness ==
  /\ Len(items) = 6
  /\ Extracting = {6}
  /\ \A j \in 1..5 : items[j].pc = "saved"

\* C29: the upload route validates every file of the request before it
\* extracts any: a request one of whose files fails the schema validation is
\* answered 400 naming that file, and no file of the request has been handed
\* to an extractor, staged as a temporary artifact, or stored.
C29_ValidationBeforeExtraction ==
  /\ res.status = 400
       => /\ items = << >>
          /\ tmp = {}
          /\ stored = {}
          /\ uploadedFiles = << >>
  /\ res.fileName # << >>
       => /\ res.status = 400
          /\ res.message = << "Invalid file data" >>
  /\ items # << >> => res.status # 400

\* a request whose first file is valid and whose second is not: 400, nothing
\* extracted
C29_Witness ==
  /\ Len(files) >= 2
  /\ res.status = 400
  /\ res.fileName = files[2].name
  /\ items = << >>

\* the paragraphs of the text are words: not empty, without whitespace
OneWordParagraphs(text) ==
  \A k \in 1..Len(InputParagraphs(text)) :
    /\ InputParagraphs(text)[k] # << >>
    /\ \A c \in 1..Len(InputParagraphs(text)[k]) : ~IsWhitespace(InputParagraphs(text)[k][c])

\* C21: with D the deduplicated paragraphs of the input (of 10 characters or
\* more) and R those of D that hold a keyword or are longer than 100
\* characters, compressText returns R joined by blank lines when R has at
\* least 5 members and D joined by blank lines otherwise; when R has at
\* least 5 members, a short paragraph without a keyword is absent from the
\* output.
C21_RelevanceFilter ==
  (cpc # "input" /\ OneWordParagraphs(cin)) =>
    LET D == FilterLoop(InputParagraphs(cin), {}, << >>)
        R == SelectSeq(D, IsKeyParagraph)
    IN /\ cout = Join(IF Len(R) >= 5 THEN R ELSE D)
       /\ Len(R) >= 5 =>
            \A k \in 1..Len(D) : ~IsKeyParagraph(D[k]) => Occurrences(D[k], cout) = 0

\* every child process the call has started ran under execOptions; a limit
\* exceeded at a method that is not the last of the chain was followed by
\* the next method, like that method's other errors; a limit exceeded at the
\* last method ended the call with a failure
LimitsHandled(c) ==
  LET chain == Chain(Format(c.ext), c.doc.size)
  IN /\ \A k \in 1..Len(c.tried) :
          IsExternal(c.tried[k])
            => /\ ExecOptionsOf(c.tried[k]).timeout = 300000
               /\ ExecOptionsOf(c.tried[k]).maxBuffer = 100 * 1024 * 1024
     /\ \A k \in 1..Len(c.limits) :
          LET at == c.limits[k].step
          IN /\ c.errs[at] = ErrOf(chain[at])
             /\ IF at < Len(chain)
                THEN Len(c.tried) > at /\ c.tried[at + 1] = chain[at + 1]
                ELSE /\ c.pc \in {"unlinkErr", "returned"}
                     /\ c.text = NoText
                     /\ c.pc = "returned" => c.error # NoError
     /\ c.hung => c.pc = "await" /\ IsExternal(c.tried[c.step])

\* C23: every child process of an extraction call runs under the timeout and
\* the maximum output size of execOptions; a primary method that exceeds a
\* limit is followed by the fallback as after any other failure, a last
\* fallback that exceeds one ends the call with a failure, and every call
\* that has started returns in the end, a success or a failure.
C23_LimitsEndEveryCall ==
  /\ [](\A i \in Calls : LimitsHandled(call[i]))
  /\ \A i \in Calls : (call[i].pc # "idle") ~> Returned(call[i])

\* a call that has returned a failure after pdf-parse ran into the timeout
\* and the string scan after it into a limit as well
C23_Witness ==
  \E i \in Calls :
    /\ Returned(call[i])
    /\ call[i].tried = << "pdfParse", "strings10000" >>
    /\ Len(call[i].limits) = 2
    /\ call[i].limits[1] = [step |-> 1, limit |-> "timeout"]
    /\ call[i].error # NoError

\* every member of the sequence but the last is a rate-limit error
OnlyLastMayDiffer(as) == \A k \in 1..(Len(as) - 1) : as[k] = 429

\* C24: withExponentialBackoff calls the wrapped function again only after a
\* rate-limit error (status 429): another error is thrown on by the call
\* that met it, the function is called at most 4 times (maxRetries 3), the
\* first result is returned without a further call, a 429 is thrown on when
\* it is the 4th call that met it, and every run of the helper ends.
C24_RetriesOnRateLimitOnly ==
  /\ [] /\ \A k \in 1..Len(attempts) : attempts[k] = 429
        /\ Len(attempts) = IF apc = "sleep" THEN retries + 1 ELSE retries
        /\ Len(attempts) <= 3
        /\ last.result # "none" =>
             /\ Len(last.attempts) \in 1..4
             /\ OnlyLastMayDiffer(last.attempts)
             /\ last.status = last.attempts[Len(last.attempts)]
        /\ last.result = "returned" <=> last.status = 200
        /\ (last.result = "threw" /\ last.status = 429) => Len(last.attempts) = 4
  /\ \A c \in 0..MaxLessons :
       (apc \in {"call", "sleep"} /\ chunk = c) ~> (chunk > c)

\* the helper has thrown the rate-limit error of its fourth call
C24_Witness ==
  /\ last.result = "threw"
  /\ last.attempts = << 429, 429, 429, 429 >>
  /\ apc = "done"

\* the standards the successful chunks have reported for the code
ReportedFor(code) == {s \in seen : s.standardCode = code}
\* Strong > Moderate > Weak
Stronger(a, b) ==
  \/ a = "Strong" /\ b \in {"Moderate", "Weak"}
  \/ a = "Moderate" /\ b = "Weak"

\* what holds of coveredStandards and standardsCoverage after any number of
\* chunks
MergedCoverage ==
  /\ \A a, b \in 1..Len(coveredStandards) :
       a # b => coveredStandards[a] # coveredStandards[b]
  /\ \A k \in 1..Len(coveredStandards) :
       /\ standardsCoverage[coveredStandards[k]] # NoEntry
       /\ ReportedFor(coveredStandards[k]) # {}
  /\ \A code \in Codes :
       ReportedFor(code) # {} =>
         /\ \E k \in 1..Len(coveredStandards) : coveredStandards[k] = code
         /\ \E s \in ReportedFor(code) : standardsCoverage[code].coverage = s.coverage
         /\ \A s \in ReportedFor(code) : standardsCoverage[code].coverage >= s.coverage
         /\ \E s \in ReportedFor(code) : standardsCoverage[code].alignment = s.alignment
         /\ \A s \in ReportedFor(code) :
              ~Stronger(s.alignment, standardsCoverage[code].alignment)
  /\ Len(outcomes) * 3 = chunk
  /\ apc = "done" => chunk >= lessons
  /\ (apc \in {"call", "sleep"}) <=> (chunk < lessons)

\* the step is the end of a chunk that failed
ChunkFailed ==
  /\ Len(outcomes') = Len(outcomes) + 1
  /\ outcomes'[Len(outcomes')] = "failed"

\* C30: after any sequence of chunks, each returning a list of standards or
\* failing, coveredStandards holds no code twice, every code in it has an
\* entry in standardsCoverage, the coverage recorded for a code is the
\* maximum and its alignment the strongest over the successful reports of
\* the code, and a chunk that fails changes neither and is followed by the
\* next chunk.
C30_MergeKeepsMaximum ==
  /\ []MergedCoverage
  /\ [][ChunkFailed =>
          /\ coveredStandards' = coveredStandards
          /\ standardsCoverage' = standardsCoverage
          /\ chunk' = chunk + 3
          /\ chunk' < lessons => apc' = "call"]_vars

\* the first chunk failed, the second reported code A with coverage 90 and a
\* weak alignment, then with coverage 50 and a strong one
C30_Witness ==
  /\ apc = "done"
  /\ outcomes = << "failed", "merged" >>
  /\ coveredStandards = << "A" >>
  /\ standardsCoverage["A"].coverage = 90
  /\ standardsCoverage["A"].alignment = "Strong"
  /\ Cardinality(seen) = 2

=============================================================================
